---- MODULE Spec2Model ----
(***************************************************************************)
(* fut-extinct-monitor: the card store (sqlite table `cards`), the startup *)
(* extinct-zone scrape and the extinct-zone monitoring loop of             *)
(* FutGGExtinctMonitor (src/fut_gg_extinct_monitor.py).                    *)
(*                                                                         *)
(* The marketplace is a closed listing of three cards.  Each card sits on  *)
(* a fixed page of the price-sorted listing and its currentDbPrice is      *)
(* either null (extinct) or a number; the site changes prices at any time. *)
(* A page that lists none of the three cards yields an empty card list.    *)
(***************************************************************************)
EXTENDS Integers, Sequences, FiniteSets, TLC

VARIABLES
    source,                   \* fut.gg: card -> "null" | "priced" (currentDbPrice)
    cards,                    \* table cards, in rowid (= created_at) order
    pc,                       \* where run_complete_system is
    restarts,                 \* process restarts so far (the database file persists)
    zone_pages,               \* scrape_extinct_zone_players: pages still to scrape
    total_saved,              \* scrape_extinct_zone_players: total_saved
    extinct_zone_cards,       \* scrape_extinct_zone_players: extinct_zone_cards
    boundary_refresh_counter, \* monitor_extinct_zone: boundary_refresh_counter
    last_extinct_page,        \* monitor_extinct_zone: last_extinct_page
    sample_pages,             \* monitor_extinct_zone: pages of the sample still to visit
    newly_extinct,            \* monitor_extinct_zone: newly_extinct
    no_longer_extinct,        \* monitor_extinct_zone: no_longer_extinct
    sent,                     \* messages handed to send_notification_to_all since the last sleep
    previous_alerts,          \* history: the alerts of the cycle before the current one
    fetch_failed,             \* history: the request of the page visited last failed
    now,                      \* history: seconds the loop has slept since the start
    first_detected,           \* history: fut_gg_url -> value of now at the INSERT of its row
    startup_locks,            \* table startup_locks: the instance_id column
    peers,                    \* the other processes started on the same database file
    savers,                   \* concurrent callers of save_cards_to_db: their locals
    write_lock,               \* sqlite: the connection that holds the write lock
    returned,                 \* history: the sum of the counts save_cards_to_db returned
    offered,                  \* history: the fut_gg_urls of the batches passed so far
    http,                     \* history: the HTTP request served last and its response
    cards_table,              \* the database file holds a table named cards
    probe_pc,                 \* where run_extinct_monitoring is
    to_check,                 \* run_extinct_monitoring: ids of the cards still to check
    extinct_alerts,           \* table extinct_alerts: card_id and alert_sent_at (UTC)
    hours,                    \* hours (UTC) since the start of run_extinct_monitoring
    utc_offset,               \* the time zone of the machine: local time minus UTC, in hours
    monitors,                 \* two monitoring loops on one database file: the check under way
    status_version,           \* history: name -> number of changes of its stored status
    startup_sent,             \* self.startup_sent
    startup_calls,            \* history: calls of check_and_send_startup_notification
    startup_posts,            \* history: startup notifications handed to the senders
    refreshes,                \* history: boundary refreshes of the loop that found a zone
    waited                    \* history: seconds the last pass through the loop top slept

vars == <<source, cards, pc, restarts, zone_pages, total_saved, extinct_zone_cards,
          boundary_refresh_counter, last_extinct_page, sample_pages,
          newly_extinct, no_longer_extinct, sent, previous_alerts, fetch_failed,
          now, first_detected, startup_locks, peers,
          savers, write_lock, returned, offered, http, cards_table,
          probe_pc, to_check, extinct_alerts, hours, utc_offset,
          monitors, status_version, startup_sent, startup_calls, startup_posts,
          refreshes, waited>>

\* The startup of several processes; only SpecStartup follows it.
Startup == <<startup_locks, peers>>

\* Several callers of save_cards_to_db on one database file; only SpecSavers
\* follows them.
Savers == <<savers, write_lock, returned, offered>>

\* The web interface of src/app.py; only SpecHttp follows it.
Http == <<http, cards_table>>

\* The fallback loop run_extinct_monitoring; only SpecProbe follows it.
Prober == <<probe_pc, to_check, extinct_alerts, hours, utc_offset>>

\* Two monitoring loops on one database file; only SpecInstances follows them.
Monitors == <<monitors, status_version>>

\* Repeated calls of check_and_send_startup_notification on one object; only
\* SpecStartupCalls follows them.
StartupCalls == <<startup_sent, startup_calls, startup_posts>>

\* The boundary refreshes of a monitoring loop that runs for many cycles; only
\* SpecRefresh follows them.
Refreshes == <<refreshes, waited>>

\* What only the specifications of one part of the program follow.
Side == <<Savers, Http, Prober, Monitors, StartupCalls, Refreshes>>

\* What the specifications with a record keep (the program has no such
\* state), and the startup of several processes.
History == <<previous_alerts, fetch_failed, now, first_detected, Startup, Side>>

(***************************************************************************)
(* Bounds of the model.                                                    *)
(***************************************************************************)
MaxRestarts == 1
MaxCycles == 2
MaxClock == 1800
MaxPeers == 2
MaxHours == 6
MaxChanges == 2
MaxCalls == 4
MaxLoops == 21

(***************************************************************************)
(* The listing.  s1 and s2 are two cards with the same name and rating and *)
(* different URLs; s3 is rated below 81.  s1 and s3 share page 20, the     *)
(* lowest page find_extinct_boundary probes; s2 is on page 21.             *)
(***************************************************************************)
Slots == {"s1", "s2", "s3"}

Catalog ==
    [s1 |-> [name |-> "A", rating |-> 90, fut_gg_url |-> "u1", page |-> 20],
     s2 |-> [name |-> "A", rating |-> 90, fut_gg_url |-> "u2", page |-> 21],
     s3 |-> [name |-> "B", rating |-> 79, fut_gg_url |-> "u3", page |-> 20]]

Listing == <<"s1", "s2", "s3">>

CardPages == {Catalog[s].page : s \in Slots}

Prices == {"null", "priced"}

Max(S) == CHOOSE x \in S : \A y \in S : y <= x

Min2(a, b) == IF a < b THEN a ELSE b

(***************************************************************************)
(* scrape_fut_gg_players_sorted.  The page holds one image per card, in    *)
(* listing order, and nprices currentDbPrice entries; card i is matched    *)
(* with entry i, and a card with no entry is reported not extinct.  A      *)
(* failed request yields the empty list.                                   *)
(***************************************************************************)
SlotsOnPage(page) == SelectSeq(Listing, LAMBDA s : Catalog[s].page = page)

IsExtinct(i, price_matches) ==
    IF i <= Len(price_matches) THEN price_matches[i] = "null" ELSE FALSE

\* A variant that parses whatever a failed request left behind: the cards
\* of the page without a price entry.
ScrapeSortedUnchecked(page, src, ok, nprices) ==
    LET imgs == SlotsOnPage(page)
        price_matches == [i \in 1..Min2(IF ok THEN nprices ELSE 0, Len(imgs)) |->
                             src[imgs[i]]]
    IN  [i \in 1..Len(imgs) |->
            [name |-> Catalog[imgs[i]].name,
             rating |-> Catalog[imgs[i]].rating,
             fut_gg_url |-> Catalog[imgs[i]].fut_gg_url,
             appears_extinct |-> IsExtinct(i, price_matches)]]

ScrapeSorted(page, src, ok, nprices) ==
    IF ~ok THEN <<>>
    ELSE LET imgs == SlotsOnPage(page)
             price_matches == [i \in 1..Min2(nprices, Len(imgs)) |-> src[imgs[i]]]
         IN  [i \in 1..Len(imgs) |->
                 [name |-> Catalog[imgs[i]].name,
                  rating |-> Catalog[imgs[i]].rating,
                  fut_gg_url |-> Catalog[imgs[i]].fut_gg_url,
                  appears_extinct |-> IsExtinct(i, price_matches)]]

\* Statement failures of one page visit: none, or the one for card i.
AtMostOne(n) == {{}} \cup {{i} : i \in 1..n}

\* The number of cards on the first of the pages still to fetch.
PageSize(pages) == IF pages = <<>> THEN 0 ELSE Len(SlotsOnPage(Head(pages)))

\* What the requests of one pass over the listing can return: for every page
\* that lists cards, whether the request succeeds and how many price entries
\* the page carries.  Every other page is empty.
MaxOnPage == Max({Len(SlotsOnPage(p)) : p \in CardPages})

FetchResults(src) ==
    {[p \in CardPages |-> ScrapeSorted(p, src, in[p].ok, in[p].nprices)] :
        in \in [CardPages -> [ok : BOOLEAN, nprices : 0..MaxOnPage]]}

FetchAt(fetch, page) == IF page \in DOMAIN fetch THEN fetch[page] ELSE <<>>

ExtinctCount(cs) == Cardinality({i \in 1..Len(cs) : cs[i].appears_extinct})

(***************************************************************************)
(* find_extinct_boundary.                                                  *)
(***************************************************************************)
TestPages == <<35, 40, 45, 50, 30, 25, 20>>

RECURSIVE CoarseSearch(_, _, _)
CoarseSearch(i, last, fetch) ==
    IF i > Len(TestPages) THEN last
    ELSE LET page == TestPages[i]
             cs == FetchAt(fetch, page)
         IN  IF cs = <<>> THEN CoarseSearch(i + 1, last, fetch)
             ELSE IF ExtinctCount(cs) > 0 /\ page > last
                  THEN CoarseSearch(i + 1, page, fetch)
                  ELSE CoarseSearch(i + 1, last, fetch)

RECURSIVE PreciseSearch(_, _, _, _)
PreciseSearch(page, stop, last, fetch) ==
    IF page >= stop THEN last
    ELSE LET cs == FetchAt(fetch, page)
         IN  IF cs = <<>> THEN last
             ELSE IF ExtinctCount(cs) > 0
                  THEN PreciseSearch(page + 1, stop, page, fetch)
                  ELSE last

\* A variant that returns the other member of the pair, the estimated number
\* of extinct players (line 246).
FindExtinctBoundaryEstimate(fetch) ==
    LET coarse == CoarseSearch(1, 0, fetch)
        last == IF coarse > 0
                THEN PreciseSearch(coarse + 1, Min2(coarse + 10, 60), coarse, fetch)
                ELSE coarse
    IN  last * 30

FindExtinctBoundary(fetch) ==
    LET coarse == CoarseSearch(1, 0, fetch)
    IN  IF coarse > 0
        THEN PreciseSearch(coarse + 1, Min2(coarse + 10, 60), coarse, fetch)
        ELSE coarse

\* The page requests of find_extinct_boundary: one per test page, then one
\* per page of the precise search up to the page that ends it.
RECURSIVE PreciseRequests(_, _, _)
PreciseRequests(page, stop, fetch) ==
    IF page >= stop THEN 0
    ELSE LET cs == FetchAt(fetch, page)
         IN  IF cs # <<>> /\ ExtinctCount(cs) > 0
             THEN 1 + PreciseRequests(page + 1, stop, fetch)
             ELSE 1

BoundaryRequests(fetch) ==
    LET coarse == CoarseSearch(1, 0, fetch)
    IN  Len(TestPages)
            + (IF coarse > 0
               THEN PreciseRequests(coarse + 1, Min2(coarse + 10, 60), fetch)
               ELSE 0)

\* The page requests of scrape_extinct_zone_players: the boundary search, then
\* one request per page of range(1, last_extinct_page + 1).
CrawlRequests(fetch) == BoundaryRequests(fetch) + FindExtinctBoundary(fetch)

\* Listings of any length, beyond the three cards: the first k pages hold a
\* card that appears extinct, and every later page either holds a card with a
\* price or fails (or is empty).  k = ListingEnd is a listing that does not
\* end where the search looks, k = 0 with failing pages one that always
\* errors.
ListingEnd == 100

Filler(extinct) ==
    <<[name |-> "X", rating |-> 0, fut_gg_url |-> "ux", appears_extinct |-> extinct]>>

Listings ==
    {[p \in 1..ListingEnd |-> IF p <= k THEN Filler(TRUE) ELSE rest] :
        k \in 0..ListingEnd, rest \in {Filler(FALSE), <<>>}}

ListingRequests == {CrawlRequests(fetch) : fetch \in Listings}

\* The values find_extinct_boundary can return while the site is in state src.
BoundaryTable ==
    [src \in [Slots -> Prices] |->
        {FindExtinctBoundary(fetch) : fetch \in FetchResults(src)}]

Boundaries(src) == BoundaryTable[src]

(***************************************************************************)
(* The cards table.  A row keeps the columns the program reads or writes;  *)
(* fut_gg_url is UNIQUE, extinction_status defaults to 'unknown', and      *)
(* created_at is the insertion time, so rowid order is created_at order    *)
(* (rows of one name never share an insert batch in this listing).         *)
(***************************************************************************)
Urls(rows) == {rows[i].fut_gg_url : i \in 1..Len(rows)}

\* get_card_extinction_status: the newest row of that name, None without one.
GetStatus(rows, player_name) ==
    LET named == {i \in 1..Len(rows) : rows[i].name = player_name}
    IN  IF named = {} THEN "None" ELSE rows[Max(named)].extinction_status

\* A variant that deletes the rows of a card that becomes available.
UpdateOrDelete(rows, player_name, status) ==
    IF status = "available"
    THEN SelectSeq(rows, LAMBDA r : r.name # player_name)
    ELSE [i \in 1..Len(rows) |->
             IF rows[i].name = player_name
             THEN [rows[i] EXCEPT !.extinction_status = status]
             ELSE rows[i]]

\* update_card_extinction_status: UPDATE cards SET extinction_status WHERE name = ?
UpdateStatus(rows, player_name, status) ==
    [i \in 1..Len(rows) |->
        IF rows[i].name = player_name
        THEN [rows[i] EXCEPT !.extinction_status = status]
        ELSE rows[i]]

NewRow(card) ==
    [name |-> card.name, rating |-> card.rating, fut_gg_url |-> card.fut_gg_url,
     extinction_status |-> "unknown"]

\* A variant without the UNIQUE constraint: a plain INSERT.
InsertAlways(rows, card) == Append(rows, NewRow(card))

\* A variant that also ignores a card whose (name, rating) is already stored.
InsertUnlessTwin(rows, card) ==
    IF \/ card.fut_gg_url \in Urls(rows)
       \/ \E i \in 1..Len(rows) : rows[i].name = card.name /\ rows[i].rating = card.rating
    THEN rows
    ELSE Append(rows, NewRow(card))

\* A variant with INSERT OR REPLACE: the row of a stored identifier is deleted
\* and inserted again.
InsertOrReplace(rows, card) ==
    Append(SelectSeq(rows, LAMBDA r : r.fut_gg_url # card.fut_gg_url), NewRow(card))

\* INSERT OR IGNORE INTO cards: the UNIQUE fut_gg_url decides.
InsertOrIgnore(rows, card) ==
    IF card.fut_gg_url \in Urls(rows) THEN rows ELSE Append(rows, NewRow(card))

\* save_cards_to_db: one INSERT OR IGNORE per card, counting rowcount > 0; an
\* INSERT that raises (i \in failed) is logged and skipped.
RECURSIVE SaveCards(_, _, _, _, _)
SaveCards(rows, cs, i, failed, saved_count) ==
    IF i > Len(cs) THEN [rows |-> rows, saved |-> saved_count]
    ELSE IF i \in failed THEN SaveCards(rows, cs, i + 1, failed, saved_count)
    ELSE LET after == InsertOrIgnore(rows, cs[i])
         IN  SaveCards(after, cs, i + 1, failed,
                       IF Len(after) > Len(rows) THEN saved_count + 1 ELSE saved_count)

\* A variant that returns the size of the batch.
SaveCardsToDbCountingAll(rows, cs, failed) ==
    [rows |-> SaveCards(rows, cs, 1, failed, 0).rows, saved |-> Len(cs)]

SaveCardsToDb(rows, cs, failed) == SaveCards(rows, cs, 1, failed, 0)

\* A variant that also drops the cards rated below 81.
ExtinctCardsRated(cs) == SelectSeq(cs, LAMBDA c : c.appears_extinct /\ c.rating >= 81)

\* scrape_extinct_zone_players line 487: only the cards that appear extinct.
ExtinctCards(cs) == SelectSeq(cs, LAMBDA c : c.appears_extinct)

\* scrape_extinct_zone_players lines 485-490, for the cards of one page.
\* db_ok = FALSE is an error of the connection or the commit: it leaves
\* save_cards_to_db, nothing is committed and the except clause of line 499
\* skips the page.
SavePage(rows, fetched, failed, db_ok) ==
    LET extinct_cards == ExtinctCards(fetched)
        result == SaveCardsToDb(rows, extinct_cards, failed)
    IN  IF fetched # <<>> /\ db_ok
        THEN [rows |-> result.rows, saved |-> result.saved, extinct_cards |-> extinct_cards]
        ELSE [rows |-> rows, saved |-> 0, extinct_cards |-> <<>>]

(***************************************************************************)
(* Callers of save_cards_to_db in different processes on one database      *)
(* file.  The first INSERT of a call opens a transaction and takes the     *)
(* write lock, which the call holds until its commit (line 807).  An       *)
(* INSERT that meets the lock of another connection waits; when the wait   *)
(* outlasts the timeout of sqlite3.connect it raises 'database is locked', *)
(* which the except clause of line 803 logs before the loop goes on.       *)
(***************************************************************************)
Callers == {"first", "second"}

Idle == [state |-> "idle", batch |-> <<>>, i |-> 1, saved_count |-> 0]

CatalogCard(s) ==
    [name |-> Catalog[s].name, rating |-> Catalog[s].rating,
     fut_gg_url |-> Catalog[s].fut_gg_url, appears_extinct |-> TRUE]

\* The batches a call is made with: up to two cards, the same one twice
\* included.
Batches ==
    {<<>>} \cup {<<CatalogCard(s)>> : s \in Slots}
           \cup {<<CatalogCard(s), CatalogCard(t)>> : s, t \in Slots}

(***************************************************************************)
(* Monitoring loops of two processes on one database file.  Each checks    *)
(* one card at a time: the SELECT of get_card_extinction_status and the    *)
(* UPDATE of update_card_extinction_status are two statements on two       *)
(* connections, with no transaction around them.                           *)
(***************************************************************************)
Instances == {"m1", "m2"}

Names == {Catalog[s].name : s \in Slots}

NotChecking ==
    [pc |-> "idle", card |-> CatalogCard("s1"), previous_status |-> "None",
     read_version |-> 0, queued |-> "none"]

(***************************************************************************)
(* Notifications.  An alert lists at most AlertLimit cards and counts the  *)
(* rest.                                                                   *)
(***************************************************************************)
AlertLimit == 10

Notice(title, count) == [title |-> title, cards |-> <<>>, more |-> 0, count |-> count]

\* A variant that names the first card only.
AlertFirstOnly(title, cs) ==
    [title |-> title,
     cards |-> SubSeq(cs, 1, Min2(1, Len(cs))),
     more |-> IF Len(cs) > 1 THEN Len(cs) - 1 ELSE 0,
     count |-> 0]

Alert(title, cs) ==
    [title |-> title,
     cards |-> SubSeq(cs, 1, Min2(AlertLimit, Len(cs))),
     more |-> IF Len(cs) > AlertLimit THEN Len(cs) - AlertLimit ELSE 0,
     count |-> 0]

\* send_extinction_alerts / send_availability_alerts: nothing for an empty list.
ExtinctionAlerts(cs) == IF cs = <<>> THEN <<>> ELSE <<Alert("NEW EXTINCTIONS", cs)>>

AvailabilityAlerts(cs) == IF cs = <<>> THEN <<>> ELSE <<Alert("BACK IN MARKET", cs)>>

(***************************************************************************)
(* send_notification_to_all posts the message to Telegram, then to         *)
(* Discord.  Each sender catches whatever its request raises and only      *)
(* prints a status that is not a success, so the caller sees no            *)
(* difference; a message in sent keeps what became of each of the posts.   *)
(***************************************************************************)
Delivered == [telegram |-> "sent", discord |-> "sent"]

\* What can become of the posts of n messages: all succeed, or one of them
\* (one message, one platform) fails.
Deliveries(n) ==
    {[i \in 1..n |-> Delivered]}
        \cup {[i \in 1..n |-> IF i = k THEN [Delivered EXCEPT ![platform] = "failed"]
                                        ELSE Delivered] :
                 k \in 1..n, platform \in {"telegram", "discord"}}

SendNotificationToAll(msg, outcome) ==
    [title |-> msg.title, cards |-> msg.cards, more |-> msg.more, count |-> msg.count,
     telegram |-> outcome.telegram, discord |-> outcome.discord]

\* A variant in which a failed post raises out of the sender: the messages
\* after it are not sent.
RECURSIVE SendAllUntilFailure(_, _)
SendAllUntilFailure(msgs, outcomes) ==
    IF msgs = <<>> THEN <<>>
    ELSE IF Head(outcomes).telegram = "failed" \/ Head(outcomes).discord = "failed"
    THEN <<SendNotificationToAll(Head(msgs), Head(outcomes))>>
    ELSE <<SendNotificationToAll(Head(msgs), Head(outcomes))>>
             \o SendAllUntilFailure(Tail(msgs), Tail(outcomes))

\* The messages of one step, sent one after the other.
SendAll(msgs, outcomes) ==
    [i \in 1..Len(msgs) |-> SendNotificationToAll(msgs[i], outcomes[i])]

(***************************************************************************)
(* Initial state: a fresh deployment.  init_database has created an empty  *)
(* cards table; the site is in any state.                                  *)
(***************************************************************************)
Init ==
    /\ source \in [Slots -> Prices]
    /\ cards = <<>>
    /\ pc = "start"
    /\ restarts = 0
    /\ zone_pages = <<>>
    /\ total_saved = 0
    /\ extinct_zone_cards = <<>>
    /\ boundary_refresh_counter = 0
    /\ last_extinct_page = 0
    /\ sample_pages = <<>>
    /\ newly_extinct = <<>>
    /\ no_longer_extinct = <<>>
    /\ sent = <<>>
    /\ previous_alerts = <<>>
    /\ fetch_failed = FALSE
    /\ now = 0
    /\ first_detected = <<>>
    /\ startup_locks = {}
    /\ peers = [p \in 1..MaxPeers |-> "new"]
    /\ savers = [p \in Callers |-> Idle]
    /\ write_lock = "free"
    /\ returned = 0
    /\ offered = {}
    /\ http = [seq |-> 0, method |-> "", path |-> "", status |-> 0, card_count |-> 0]
    /\ cards_table = TRUE
    /\ probe_pc = "idle"
    /\ to_check = <<>>
    /\ extinct_alerts = {}
    /\ hours = 0
    /\ utc_offset = 0
    /\ monitors = [m \in Instances |-> NotChecking]
    /\ status_version = [name \in Names |-> 0]
    /\ startup_sent = FALSE
    /\ startup_calls = 0
    /\ startup_posts = 0
    /\ refreshes = 0
    /\ waited = 0

ScrapeLocals == <<zone_pages, total_saved, extinct_zone_cards>>

MonitorLocals == <<boundary_refresh_counter, last_extinct_page, sample_pages,
                   newly_extinct, no_longer_extinct>>

\* monitor_extinct_zone is entered: lines 605-606.
EnterMonitor ==
    /\ pc' = "monitor"
    /\ boundary_refresh_counter' = 0
    /\ last_extinct_page' = 0
    /\ sample_pages' = <<>>
    /\ newly_extinct' = <<>>
    /\ no_longer_extinct' = <<>>

(***************************************************************************)
(* run_complete_system up to the choice between scraping and monitoring:   *)
(* the startup notification, the card count and SKIP_SCRAPING.             *)
(***************************************************************************)
ScrapeThreshold == 100

StartNotices(skip_scraping) ==
    LET card_count == Len(cards)
        started == Notice("Extinct Monitor Started", 0)
    IN  IF (skip_scraping /\ card_count > 0) \/ card_count >= ScrapeThreshold
        THEN <<started, Notice("Zone Monitoring Started", card_count)>>
        ELSE <<started>>

StartSystemWith(skip_scraping, outcomes) ==
    /\ pc = "start"
    /\ Len(outcomes) = Len(StartNotices(skip_scraping))
    /\ sent' = SendAll(StartNotices(skip_scraping), outcomes)
    /\ LET card_count == Len(cards)
       IN  IF skip_scraping /\ card_count > 0
           THEN /\ EnterMonitor
                /\ UNCHANGED ScrapeLocals
           ELSE IF card_count < ScrapeThreshold
           THEN /\ pc' = "scrape_boundary"
                /\ UNCHANGED <<ScrapeLocals, MonitorLocals>>
           ELSE /\ EnterMonitor
                /\ UNCHANGED ScrapeLocals
    /\ UNCHANGED <<source, cards, restarts>>

StartSystem ==
    /\ pc = "start"
    /\ \E skip_scraping \in BOOLEAN :
        \E outcomes \in Deliveries(Len(StartNotices(skip_scraping))) :
            StartSystemWith(skip_scraping, outcomes)
    /\ UNCHANGED History

(***************************************************************************)
(* check_and_send_startup_notification, for several processes started on   *)
(* the same database file.  instance_id is the time to the microsecond,    *)
(* the pid and eight hex digits of a uuid4: every process has its own.     *)
(* The INSERT into startup_locks fails with IntegrityError only when the   *)
(* UNIQUE instance_id is already in the table; the process that inserted   *)
(* its row sends the startup notification.                                 *)
(***************************************************************************)
Peers == 1..MaxPeers

InstanceId(p) == <<"instance", p>>

OwnInstanceId == <<"instance", 0>>

LockAcquired(locks, instance_id) == instance_id \notin locks

\* The process of the model: the step StartSystem with the row it inserts.
StartSystemLocked ==
    /\ pc = "start"
    /\ LockAcquired(startup_locks, OwnInstanceId)
    /\ \E skip_scraping \in BOOLEAN :
        \E outcomes \in Deliveries(Len(StartNotices(skip_scraping))) :
            StartSystemWith(skip_scraping, outcomes)
    /\ startup_locks' = startup_locks \cup {OwnInstanceId}
    /\ UNCHANGED <<previous_alerts, fetch_failed, now, first_detected, peers, Side>>

\* lines 153-160: another process inserts its row and commits.
PeerAcquire(p) ==
    /\ peers[p] = "new"
    /\ IF LockAcquired(startup_locks, InstanceId(p))
       THEN /\ startup_locks' = startup_locks \cup {InstanceId(p)}
            /\ peers' = [peers EXCEPT ![p] = "acquired"]
       ELSE /\ peers' = [peers EXCEPT ![p] = "skipped"]
            /\ UNCHANGED startup_locks
    /\ UNCHANGED <<source, cards, pc, restarts, ScrapeLocals, MonitorLocals, sent,
                   previous_alerts, fetch_failed, now, first_detected, Side>>

\* lines 164-176: it sends the startup notification.
PeerNotify(p) ==
    /\ peers[p] = "acquired"
    /\ peers' = [peers EXCEPT ![p] = "notified"]
    /\ UNCHANGED <<source, cards, pc, restarts, ScrapeLocals, MonitorLocals, sent,
                   previous_alerts, fetch_failed, now, first_detected, startup_locks,
                   Side>>

(***************************************************************************)
(* scrape_extinct_zone_players.  Pages of the zone that list no card       *)
(* return an empty list and change nothing, so zone_pages keeps, in        *)
(* increasing order, the pages of range(1, last_extinct_page + 1) that     *)
(* list cards.                                                             *)
(***************************************************************************)
\* A variant that ends the crawl at the third of three pages in a row that
\* list no card.
ZonePagesUntilThreeEmpty(last) ==
    LET ends == {p \in 3..last : {p - 2, p - 1, p} \cap CardPages = {}}
        stop == IF ends = {} THEN last ELSE CHOOSE p \in ends : \A q \in ends : p <= q
    IN  SelectSeq([p \in 1..stop |-> p], LAMBDA p : p \in CardPages)

ZonePages(last) == SelectSeq([p \in 1..last |-> p], LAMBDA p : p \in CardPages)

\* scrape_extinct_zone_players as a function of the table and of what the
\* listing answers (fetch: page -> cards), when no statement fails.
RECURSIVE ScrapePages(_, _, _, _)
ScrapePages(rows, pages, fetch, saved_so_far) ==
    IF pages = <<>> THEN [rows |-> rows, saved |-> saved_so_far]
    ELSE LET page == SavePage(rows, FetchAt(fetch, Head(pages)), {}, TRUE)
         IN  ScrapePages(page.rows, Tail(pages), fetch, saved_so_far + page.saved)

ScrapeRun(rows, fetch) ==
    LET last == FindExtinctBoundary(fetch)
    IN  IF last = 0 THEN [rows |-> rows, saved |-> 0]
        ELSE ScrapePages(rows, ZonePages(last), fetch, 0)

\* lines 469-478: the boundary search; return 0 without a zone.
ScrapeBoundaryAt(last) ==
    /\ pc = "scrape_boundary"
    /\ IF last = 0
       THEN /\ total_saved' = 0
            /\ zone_pages' = <<>>
            /\ extinct_zone_cards' = <<>>
            /\ sent' = <<>>
            /\ EnterMonitor
       ELSE /\ total_saved' = 0
            /\ zone_pages' = ZonePages(last)
            /\ extinct_zone_cards' = <<>>
            /\ sent' = <<>>
            /\ pc' = "scrape_zone"
            /\ UNCHANGED MonitorLocals
    /\ UNCHANGED <<source, cards, restarts>>

ScrapeBoundary ==
    /\ pc = "scrape_boundary"
    /\ \E last \in Boundaries(source) : ScrapeBoundaryAt(last)
    /\ UNCHANGED History

\* lines 480-501: one page of the zone.
ScrapePageWith(ok, nprices, failed, db_ok) ==
    /\ pc = "scrape_zone"
    /\ zone_pages # <<>>
    /\ LET fetched == ScrapeSorted(Head(zone_pages), source, ok, nprices)
           page == SavePage(cards, fetched, failed, db_ok)
       IN  /\ cards' = page.rows
           /\ total_saved' = total_saved + page.saved
           /\ extinct_zone_cards' = extinct_zone_cards \o page.extinct_cards
    /\ zone_pages' = Tail(zone_pages)
    /\ UNCHANGED <<source, pc, restarts, MonitorLocals, sent>>

ScrapePage ==
    /\ pc = "scrape_zone"
    /\ \E ok \in BOOLEAN, nprices \in 0..PageSize(zone_pages),
       failed \in SUBSET (1..PageSize(zone_pages)), db_ok \in BOOLEAN :
        ScrapePageWith(ok, nprices, failed, db_ok)
    /\ UNCHANGED History

\* The same step, remembering when each row was inserted (created_at).
ScrapePageTimed ==
    /\ pc = "scrape_zone"
    /\ \E ok \in BOOLEAN, nprices \in 0..PageSize(zone_pages),
       failed \in SUBSET (1..PageSize(zone_pages)), db_ok \in BOOLEAN :
        ScrapePageWith(ok, nprices, failed, db_ok)
    /\ first_detected' = [u \in Urls(cards') |->
                             IF u \in DOMAIN first_detected THEN first_detected[u]
                             ELSE now]
    /\ UNCHANGED <<previous_alerts, fetch_failed, now, Startup, Side>>

\* lines 503-515: the summary notification and the return of total_saved (the
\* locals end with the call); run_complete_system then starts
\* monitor_extinct_zone.
ScrapeDoneWith(outcomes) ==
    /\ pc = "scrape_zone"
    /\ zone_pages = <<>>
    /\ sent' = SendAll(<<Notice("Extinct Zone Mapped", total_saved)>>, outcomes)
    /\ total_saved' = 0
    /\ extinct_zone_cards' = <<>>
    /\ EnterMonitor
    /\ UNCHANGED <<source, cards, restarts, zone_pages>>

ScrapeDone ==
    /\ pc = "scrape_zone"
    /\ \E outcomes \in Deliveries(1) : ScrapeDoneWith(outcomes)
    /\ UNCHANGED History

(***************************************************************************)
(* monitor_extinct_zone.  random.sample draws min(5, last_extinct_page)    *)
(* distinct pages of 1..last_extinct_page in random order; sample_pages    *)
(* keeps the drawn pages that list cards, in the order drawn (the other    *)
(* pages return an empty list and change nothing).                         *)
(***************************************************************************)
PagesPerCycle == 5

RefreshEvery == 10

\* time.sleep(600) without a zone; time.sleep(cycle_interval * 60) at the end
\* of a cycle, MONITORING_CYCLE_INTERVAL being 5 minutes unless configured.
NoZoneWait == 600

CycleInterval == 300

\* The clock after a sleep of that many seconds; it stops at MaxClock.  The
\* requests and the pauses of one or two seconds between pages take no time.
Slept(seconds) == Min2(now + seconds, MaxClock)

\* A variant that draws with replacement, as random.choices does.
SampleChoicesWithRepeats(last) ==
    LET n == Min2(PagesPerCycle, last)
        listed == CardPages \cap (1..last)
    IN  UNION {[1..k -> listed] : k \in 0..n}

SampleChoices(last) ==
    LET n == Min2(PagesPerCycle, last)
        listed == CardPages \cap (1..last)
        others == last - Cardinality(listed)
    IN  {sq \in UNION {[1..k -> listed] : k \in 0..Cardinality(listed)} :
            /\ \A i, j \in 1..Len(sq) : i # j => sq[i] # sq[j]
            /\ Len(sq) <= n
            /\ n - Len(sq) <= others}

\* A variant that refreshes the boundary before the first cycle only.
RefreshDueFirstOnly(counter) == counter = 0

\* line 611: the boundary is refreshed when the counter is a multiple of 10.
RefreshDue(counter) == counter % RefreshEvery = 0

\* lines 610-628, one pass through the top of the loop: refresh the boundary
\* when it is due (found is what find_extinct_boundary returns then), wait and
\* try again without a zone, else count the cycle and draw the sample.
LoopTop(found, sample) ==
    /\ LET refresh == RefreshDue(boundary_refresh_counter)
           last == IF refresh THEN found ELSE last_extinct_page
       IN  IF refresh /\ last = 0
           THEN /\ last_extinct_page' = 0
                /\ UNCHANGED <<pc, boundary_refresh_counter, sample_pages,
                               newly_extinct, no_longer_extinct>>
           ELSE /\ last_extinct_page' = last
                /\ boundary_refresh_counter' = boundary_refresh_counter + 1
                /\ sample \in SampleChoices(last)
                /\ sample_pages' = sample
                /\ newly_extinct' = <<>>
                /\ no_longer_extinct' = <<>>
                /\ pc' = "cycle"
    /\ sent' = <<>>
    /\ UNCHANGED <<source, cards, restarts, ScrapeLocals>>

CycleStartAt(found, sample) ==
    /\ pc = "monitor"
    /\ boundary_refresh_counter < MaxCycles
    /\ LoopTop(found, sample)

\* What the pass through the loop top has as the boundary: a result of
\* find_extinct_boundary when the refresh is due, last_extinct_page as it is
\* otherwise.
Found ==
    IF RefreshDue(boundary_refresh_counter)
    THEN Boundaries(source)
    ELSE {last_extinct_page}

CycleStart ==
    /\ pc = "monitor"
    /\ boundary_refresh_counter < MaxCycles
    /\ \E found \in Found :
        \E sample \in SampleChoices(found) :
            CycleStartAt(found, sample)
    /\ UNCHANGED History

\* The same step, with the sleep of the loop that found no zone.
CycleStartTimed ==
    /\ pc = "monitor"
    /\ boundary_refresh_counter < MaxCycles
    /\ \E found \in Found :
        \E sample \in SampleChoices(found) :
            /\ CycleStartAt(found, sample)
            /\ now' = IF RefreshDue(boundary_refresh_counter) /\ found = 0
                      THEN Slept(NoZoneWait)
                      ELSE now
    /\ UNCHANGED <<previous_alerts, fetch_failed, first_detected, Startup, Side>>

\* A variant that compares with the wrong status.
BecomesAvailableFromUnknown(card, previous_status) ==
    ~card.appears_extinct /\ previous_status = "unknown"

\* lines 640-648, for one card.  read_ok = FALSE: the SELECT raises and
\* get_card_extinction_status returns None; write_ok = FALSE: the UPDATE
\* raises and update_card_extinction_status only logs it.
PreviousStatus(rows, card, read_ok) ==
    IF read_ok THEN GetStatus(rows, card.name) ELSE "None"

Written(rows, card, status, write_ok) ==
    IF write_ok THEN UpdateStatus(rows, card.name, status) ELSE rows

BecomesExtinct(card, previous_status) ==
    card.appears_extinct /\ previous_status # "extinct"

BecomesAvailable(card, previous_status) ==
    ~card.appears_extinct /\ previous_status = "extinct"

\* A variant with a grace period: a card whose row is younger than 1800
\* seconds is not checked.
CheckCardAfterGrace(st, card, read_ok, write_ok) ==
    LET previous_status == PreviousStatus(st.rows, card, read_ok)
        young == /\ card.fut_gg_url \in DOMAIN first_detected
                 /\ now - first_detected[card.fut_gg_url] < 1800
    IN  IF young \/ card.name = "" \/ card.name = "Unknown" THEN st
        ELSE IF BecomesExtinct(card, previous_status)
        THEN [st EXCEPT !.newly_extinct = Append(@, card),
                        !.rows = Written(@, card, "extinct", write_ok)]
        ELSE IF BecomesAvailable(card, previous_status)
        THEN [st EXCEPT !.no_longer_extinct = Append(@, card),
                        !.rows = Written(@, card, "available", write_ok)]
        ELSE st

CheckCard(st, card, read_ok, write_ok) ==
    LET previous_status == PreviousStatus(st.rows, card, read_ok)
    IN  IF card.name = "" \/ card.name = "Unknown" THEN st
        ELSE IF BecomesExtinct(card, previous_status)
        THEN [st EXCEPT !.newly_extinct = Append(@, card),
                        !.rows = Written(@, card, "extinct", write_ok)]
        ELSE IF BecomesAvailable(card, previous_status)
        THEN [st EXCEPT !.no_longer_extinct = Append(@, card),
                        !.rows = Written(@, card, "available", write_ok)]
        ELSE st

\* lines 634-648: the cards of one page, in page order.
RECURSIVE CheckCards(_, _, _, _, _)
CheckCards(st, cs, i, read_failed, write_failed) ==
    IF i > Len(cs) THEN st
    ELSE CheckCards(CheckCard(st, cs[i], i \notin read_failed, i \notin write_failed),
                    cs, i + 1, read_failed, write_failed)

\* lines 632-648: the visit of the next page of the sample, from the current
\* table and lists.
VisitPage(ok, nprices, read_failed, write_failed) ==
    CheckCards([rows |-> cards, newly_extinct |-> newly_extinct,
                no_longer_extinct |-> no_longer_extinct],
               ScrapeSorted(Head(sample_pages), source, ok, nprices),
               1, read_failed, write_failed)

\* lines 630-655: one page of the sample.
MonitorPageWith(ok, nprices, read_failed, write_failed) ==
    /\ pc = "cycle"
    /\ sample_pages # <<>>
    /\ LET st == VisitPage(ok, nprices, read_failed, write_failed)
       IN  /\ cards' = st.rows
           /\ newly_extinct' = st.newly_extinct
           /\ no_longer_extinct' = st.no_longer_extinct
    /\ sample_pages' = Tail(sample_pages)
    /\ UNCHANGED <<source, pc, restarts, ScrapeLocals, boundary_refresh_counter,
                   last_extinct_page, sent>>

\* What can happen to the visit of the next page: the request fails, or it
\* returns the page with some number of price entries and at most one
\* statement of the visit (the SELECT or the UPDATE of one card) raises.
Probes(pages) ==
    {[ok |-> FALSE, nprices |-> 0, read_failed |-> {}, write_failed |-> {}]}
        \cup {[ok |-> TRUE, nprices |-> n, read_failed |-> rf, write_failed |-> {}] :
                 n \in 0..PageSize(pages), rf \in AtMostOne(PageSize(pages))}
        \cup {[ok |-> TRUE, nprices |-> n, read_failed |-> {}, write_failed |-> wf] :
                 n \in 0..PageSize(pages), wf \in AtMostOne(PageSize(pages))}

MonitorPage ==
    /\ pc = "cycle"
    /\ \E probe \in Probes(sample_pages) :
        MonitorPageWith(probe.ok, probe.nprices, probe.read_failed, probe.write_failed)
    /\ UNCHANGED History

\* The same step, remembering whether the request of the page failed.
MonitorPageRecorded ==
    /\ pc = "cycle"
    /\ \E probe \in Probes(sample_pages) :
        /\ MonitorPageWith(probe.ok, probe.nprices, probe.read_failed,
                           probe.write_failed)
        /\ fetch_failed' = ~probe.ok
    /\ UNCHANGED <<previous_alerts, now, first_detected, Startup, Side>>

\* lines 657-669: send the two alerts, then sleep until the next cycle (the
\* two lists are not read again: the next cycle starts from empty ones).
CycleAlerts == ExtinctionAlerts(newly_extinct) \o AvailabilityAlerts(no_longer_extinct)

SendAlertsWith(outcomes) ==
    /\ pc = "cycle"
    /\ sample_pages = <<>>
    /\ sent' = SendAll(CycleAlerts, outcomes)
    /\ newly_extinct' = <<>>
    /\ no_longer_extinct' = <<>>
    /\ pc' = "monitor"
    /\ UNCHANGED <<source, cards, restarts, ScrapeLocals, boundary_refresh_counter,
                   last_extinct_page, sample_pages>>

SendAlerts ==
    /\ pc = "cycle"
    /\ \E outcomes \in Deliveries(Len(CycleAlerts)) : SendAlertsWith(outcomes)

CycleEnd == SendAlerts /\ UNCHANGED History

\* The same step, remembering the alerts it sent until the next cycle has
\* ended.
CycleEndRecorded ==
    /\ SendAlerts
    /\ previous_alerts' = CycleAlerts
    /\ UNCHANGED <<fetch_failed, now, first_detected, Startup, Side>>

\* The same step, with the sleep that follows the alerts.
CycleEndTimed ==
    /\ SendAlerts
    /\ now' = Slept(CycleInterval)
    /\ UNCHANGED <<previous_alerts, fetch_failed, first_detected, Startup, Side>>

(***************************************************************************)
(* requests.post is called without a timeout (lines 951, 1014, against     *)
(* timeout=30 of the page requests), so a post to an endpoint that accepts *)
(* the connection and never answers does not return: the process stays in  *)
(* the sender.  The steps that post are the start of the system, the end   *)
(* of the scrape and the end of a cycle that has an alert to send.         *)
(***************************************************************************)
Posting ==
    \/ pc = "start"
    \/ pc = "scrape_zone" /\ zone_pages = <<>>
    \/ pc = "cycle" /\ sample_pages = <<>> /\ CycleAlerts # <<>>

PostStalls ==
    /\ Posting
    /\ pc' = "blocked"
    /\ UNCHANGED <<source, cards, restarts, ScrapeLocals, MonitorLocals, sent, History>>

(***************************************************************************)
(* The environment: the site changes a card's price; the process is        *)
(* stopped and started again on the same database file.                    *)
(***************************************************************************)
SourceChange ==
    \E s \in Slots :
        /\ source' = [source EXCEPT ![s] = IF source[s] = "null" THEN "priced" ELSE "null"]
        /\ UNCHANGED <<cards, pc, restarts, ScrapeLocals, MonitorLocals, sent, History>>

Restart ==
    /\ restarts < MaxRestarts
    /\ restarts' = restarts + 1
    /\ pc' = "start"
    /\ zone_pages' = <<>>
    /\ total_saved' = 0
    /\ extinct_zone_cards' = <<>>
    /\ boundary_refresh_counter' = 0
    /\ last_extinct_page' = 0
    /\ sample_pages' = <<>>
    /\ newly_extinct' = <<>>
    /\ no_longer_extinct' = <<>>
    /\ sent' = <<>>
    /\ UNCHANGED <<source, cards, History>>

Next ==
    \/ StartSystem
    \/ ScrapeBoundary
    \/ ScrapePage
    \/ ScrapeDone
    \/ CycleStart
    \/ MonitorPage
    \/ CycleEnd
    \/ PostStalls
    \/ SourceChange
    \/ Restart

Spec == Init /\ [][Next]_vars

(***************************************************************************)
(* One run of the process, with the alerts of the previous cycle kept for  *)
(* comparison with those of the current one.                               *)
(***************************************************************************)
NextRecorded ==
    \/ StartSystem
    \/ ScrapeBoundary
    \/ ScrapePage
    \/ ScrapeDone
    \/ CycleStart
    \/ MonitorPage
    \/ CycleEndRecorded
    \/ PostStalls
    \/ SourceChange

SpecRecorded == Init /\ [][NextRecorded]_vars

(***************************************************************************)
(* One run of the process, with the outcome of the last page request of    *)
(* the monitoring loop kept.                                               *)
(***************************************************************************)
NextVisits ==
    \/ StartSystem
    \/ ScrapeBoundary
    \/ ScrapePage
    \/ ScrapeDone
    \/ CycleStart
    \/ MonitorPageRecorded
    \/ CycleEnd
    \/ PostStalls
    \/ SourceChange

SpecVisits == Init /\ [][NextVisits]_vars

(***************************************************************************)
(* One run of the process, with the time the monitoring loop has slept and *)
(* the time of insertion of every row.                                     *)
(***************************************************************************)
NextTimed ==
    \/ StartSystem
    \/ ScrapeBoundary
    \/ ScrapePageTimed
    \/ ScrapeDone
    \/ CycleStartTimed
    \/ MonitorPage
    \/ CycleEndTimed
    \/ PostStalls
    \/ SourceChange

SpecTimed == Init /\ [][NextTimed]_vars

(***************************************************************************)
(* The start of the process and of MaxPeers other processes on the same    *)
(* database file, in any interleaving.                                     *)
(***************************************************************************)
NextStartup ==
    \/ StartSystemLocked
    \/ \E p \in Peers : PeerAcquire(p)
    \/ \E p \in Peers : PeerNotify(p)
    \/ PostStalls
    \/ SourceChange

SpecStartup == Init /\ [][NextStartup]_vars

(***************************************************************************)
(* One run of the process that is never stopped: the interpreter keeps     *)
(* executing the program, so a step of the program that can be taken is    *)
(* eventually taken.  The site changes prices whenever it likes.           *)
(***************************************************************************)
Program ==
    \/ StartSystem
    \/ ScrapeBoundary
    \/ ScrapePage
    \/ ScrapeDone
    \/ CycleStart
    \/ MonitorPage
    \/ CycleEnd
    \/ PostStalls

NextFair ==
    \/ StartSystem
    \/ ScrapeBoundary
    \/ ScrapePage
    \/ ScrapeDone
    \/ CycleStart
    \/ MonitorPage
    \/ CycleEnd
    \/ PostStalls
    \/ SourceChange

SpecFair == Init /\ [][NextFair]_vars /\ WF_vars(Program)

(***************************************************************************)
(* save_cards_to_db, statement by statement, for every caller.             *)
(***************************************************************************)
Process == <<source, pc, restarts, ScrapeLocals, MonitorLocals, sent>>

Record == <<previous_alerts, fetch_failed, now, first_detected>>

\* line 785: the call, with its batch.
SaverCall(p) ==
    /\ savers[p].state = "idle"
    /\ \E batch \in Batches :
        /\ savers' = [savers EXCEPT ![p] = [state |-> "running", batch |-> batch,
                                            i |-> 1, saved_count |-> 0]]
        /\ offered' = offered \cup Urls(batch)
    /\ UNCHANGED <<cards, write_lock, returned, Process, Record, Startup, Http, Prober, Monitors,
                 StartupCalls, Refreshes>>

\* lines 792-802: the INSERT OR IGNORE of the next card, under the write lock.
SaverInsert(p) ==
    /\ savers[p].state = "running"
    /\ savers[p].i <= Len(savers[p].batch)
    /\ write_lock \in {"free", p}
    /\ LET after == InsertOrIgnore(cards, savers[p].batch[savers[p].i])
       IN  /\ cards' = after
           /\ savers' = [savers EXCEPT
                            ![p].i = @ + 1,
                            ![p].saved_count = IF Len(after) > Len(cards) THEN @ + 1 ELSE @]
    /\ write_lock' = p
    /\ UNCHANGED <<returned, offered, Process, Record, Startup, Http, Prober, Monitors,
                 StartupCalls, Refreshes>>

\* lines 803-804: the INSERT gave up waiting for the lock of another caller.
SaverTimeout(p) ==
    /\ savers[p].state = "running"
    /\ savers[p].i <= Len(savers[p].batch)
    /\ write_lock \notin {"free", p}
    /\ savers' = [savers EXCEPT ![p].i = @ + 1]
    /\ UNCHANGED <<cards, write_lock, returned, offered, Process, Record, Startup, Http, Prober, Monitors,
                 StartupCalls, Refreshes>>

\* lines 807-809: commit, close, return saved_count.
SaverCommit(p) ==
    /\ savers[p].state = "running"
    /\ savers[p].i > Len(savers[p].batch)
    /\ write_lock' = IF write_lock = p THEN "free" ELSE write_lock
    /\ returned' = returned + savers[p].saved_count
    /\ savers' = [savers EXCEPT ![p] = Idle]
    /\ UNCHANGED <<cards, offered, Process, Record, Startup, Http, Prober, Monitors,
                 StartupCalls, Refreshes>>

(***************************************************************************)
(* The callers of save_cards_to_db, in any interleaving of their           *)
(* statements that the write lock allows.                                  *)
(***************************************************************************)
NextSavers ==
    \/ \E p \in Callers : SaverCall(p)
    \/ \E p \in Callers : SaverInsert(p)
    \/ \E p \in Callers : SaverTimeout(p)
    \/ \E p \in Callers : SaverCommit(p)

SpecSavers == Init /\ [][NextSavers]_vars

(***************************************************************************)
(* The routes of src/app.py, served on the database file of the monitor.   *)
(* An uploaded file is a database written by the program (an empty one, a  *)
(* backup with the row of u1 stored as extinct, one that keeps another     *)
(* name and rating under u1) or a file without a table named cards.        *)
(***************************************************************************)
UploadedTables ==
    {<<>>,
     <<[name |-> "A", rating |-> 90, fut_gg_url |-> "u1", extinction_status |-> "extinct"]>>,
     <<[name |-> "C", rating |-> 85, fut_gg_url |-> "u1", extinction_status |-> "unknown"]>>}

FileNames == {"", "backup.db", "backup.txt"}

\* request.files of a POST: no part named database, or a file.
Uploads ==
    {[part |-> FALSE, filename |-> "", cards_table |-> FALSE, rows |-> <<>>]}
        \cup [part : {TRUE}, filename : FileNames, cards_table : {TRUE}, rows : UploadedTables]
        \cup [part : {TRUE}, filename : FileNames, cards_table : {FALSE}, rows : {<<>>}]

Respond(method, path, status, card_count) ==
    /\ http' = [seq |-> 1 - http.seq, method |-> method, path |-> path,
                status |-> status, card_count |-> card_count]
    /\ UNCHANGED <<Process, Record, Startup, Savers, Prober, Monitors, StartupCalls, Refreshes>>

\* A variant that adds the rows of the uploaded file to the table.
SaveFileMerging(rows, file) == rows \o file.rows

\* line 345: file.save writes the upload over the database file.
SaveFile(rows, file) == file.rows

Home == Respond("GET", "/", 200, 0) /\ UNCHANGED <<cards, cards_table>>

\* lines 277-302: the SELECT raises without the table and the handler
\* answers 500.
DownloadDb ==
    /\ IF ~cards_table
       THEN Respond("GET", "/download-db", 500, 0)
       ELSE IF Len(cards) = 0
       THEN Respond("GET", "/download-db", 400, 0)
       ELSE Respond("GET", "/download-db", 200, Len(cards))
    /\ UNCHANGED <<cards, cards_table>>

UploadDbForm == Respond("GET", "/upload-db", 200, 0) /\ UNCHANGED <<cards, cards_table>>

\* lines 335-369: the file is saved over the database (line 345) before the
\* SELECT COUNT(*) FROM cards that verifies it (lines 348-351); the SELECT
\* raises on a file without the table and the handler answers 500.
UploadDb(file) ==
    IF ~file.part \/ file.filename = "" \/ file.filename # "backup.db"
    THEN Respond("POST", "/upload-db", 400, 0) /\ UNCHANGED <<cards, cards_table>>
    ELSE /\ cards' = SaveFile(cards, file)
         /\ cards_table' = file.cards_table
         /\ IF file.cards_table
            THEN Respond("POST", "/upload-db", 200, Len(SaveFile(cards, file)))
            ELSE Respond("POST", "/upload-db", 500, 0)

\* lines 375-382: without the table the count is reported as 0.
Status ==
    /\ Respond("GET", "/status", 200, IF cards_table THEN Len(cards) ELSE 0)
    /\ UNCHANGED <<cards, cards_table>>

Health == Respond("GET", "/health", 200, 0) /\ UNCHANGED <<cards, cards_table>>

Logs == Respond("GET", "/logs", 200, 0) /\ UNCHANGED <<cards, cards_table>>

\* run_complete_system on a database file that has lost its tables since
\* init_database: the INSERT into startup_locks raises and is caught (lines
\* 182-184: no notification is sent), and the SELECT COUNT(*) FROM cards of
\* lines 1274-1278, which no try encloses, raises out of run_complete_system.
StartSystemWithoutTable ==
    /\ pc = "start"
    /\ ~cards_table
    /\ pc' = "stopped"
    /\ sent' = <<>>
    /\ UNCHANGED <<source, cards, restarts, ScrapeLocals, MonitorLocals, History>>

(***************************************************************************)
(* The web interface next to the start of the monitor and its scrape.  The *)
(* scrape is followed as long as the database file holds its table.        *)
(***************************************************************************)
NextHttp ==
    \/ cards_table /\ StartSystem
    \/ StartSystemWithoutTable
    \/ cards_table /\ ScrapeBoundary
    \/ cards_table /\ ScrapePage
    \/ cards_table /\ ScrapeDone
    \/ Home
    \/ DownloadDb
    \/ UploadDbForm
    \/ \E file \in Uploads : UploadDb(file)
    \/ Status
    \/ Health
    \/ Logs

SpecHttp == Init /\ [][NextHttp]_vars

(***************************************************************************)
(* run_extinct_monitoring: the loop that checks the stored cards one by    *)
(* one and alerts through send_extinct_alert.  Time is counted in hours.   *)
(* alert_sent_at is sqlite's CURRENT_TIMESTAMP, which is UTC; the cooldown *)
(* limit is datetime.now(), the local time of the machine, minus           *)
(* ALERT_COOLDOWN_HOURS.  No statement of the program sets resolved_at, so *)
(* every row of extinct_alerts is unresolved.                              *)
(***************************************************************************)
AlertCooldownHours == 6

UtcOffsets == {0, 2}

\* line 1065: datetime.now() - timedelta(hours=ALERT_COOLDOWN_HOURS).
CooldownTime(utc_hours, offset) == utc_hours + offset - AlertCooldownHours

\* lines 1066-1071: the rows of the card that count as recent.
RecentAlerts(alerts, card_id, cooldown_time) ==
    {a \in alerts : a.card_id = card_id /\ a.alert_sent_at > cooldown_time}

\* save_extinct_alert: the table afterwards and the value returned.
SaveExtinctAlert(alerts, card_id, utc_hours, offset) ==
    IF RecentAlerts(alerts, card_id, CooldownTime(utc_hours, offset)) # {}
    THEN [alerts |-> alerts, saved |-> FALSE]
    ELSE [alerts |-> alerts \cup {[card_id |-> card_id, alert_sent_at |-> utc_hours]},
          saved |-> TRUE]

\* check_player_extinct_status: None when the request fails, else whether the
\* page of the card says EXTINCT.
CheckPlayerExtinctStatus(src, fut_gg_url, ok) ==
    IF ~ok THEN "None"
    ELSE IF \E s \in Slots : Catalog[s].fut_gg_url = fut_gg_url /\ src[s] = "null"
         THEN "extinct"
         ELSE "available"

RandomOrders(n) ==
    {q \in [1..n -> 1..n] : \A i, j \in 1..n : q[i] = q[j] => i = j}

NotProber == <<source, pc, restarts, ScrapeLocals, MonitorLocals, sent, Record, Startup,
               Savers, Http, Monitors, StartupCalls, Refreshes>>

\* The loop is entered, on a machine in some time zone.
ProbeStart ==
    /\ probe_pc = "idle"
    /\ probe_pc' = "cycle"
    /\ \E offset \in UtcOffsets : utc_offset' = offset
    /\ UNCHANGED <<cards, to_check, extinct_alerts, hours, NotProber>>

\* lines 1137-1141: no card in the table: scrape_all_players(5) saves what
\* the first pages of the site list, then the loop starts over.
ProbeScrapeAll ==
    /\ probe_pc = "cycle"
    /\ cards = <<>>
    /\ \E batch \in Batches : cards' = SaveCardsToDb(cards, batch, {}).rows
    /\ UNCHANGED <<Prober, NotProber>>

\* line 1136: get_cards_to_monitor, ORDER BY RANDOM() LIMIT 50.
ProbeCycleStart ==
    /\ probe_pc = "cycle"
    /\ cards # <<>>
    /\ \E order \in RandomOrders(Len(cards)) : to_check' = order
    /\ probe_pc' = "checking"
    /\ UNCHANGED <<cards, extinct_alerts, hours, utc_offset, NotProber>>

\* lines 1146-1154: the check of one card and, when it is extinct,
\* send_extinct_alert: the alert is sent when save_extinct_alert saved a row.
ProbeCard ==
    /\ probe_pc = "checking"
    /\ to_check # <<>>
    /\ \E ok \in BOOLEAN :
        LET card_id == Head(to_check)
            status_result == CheckPlayerExtinctStatus(source, cards[card_id].fut_gg_url, ok)
        IN  extinct_alerts' = IF status_result = "extinct"
                              THEN SaveExtinctAlert(extinct_alerts, card_id, hours,
                                                    utc_offset).alerts
                              ELSE extinct_alerts
    /\ to_check' = Tail(to_check)
    /\ UNCHANGED <<cards, probe_pc, hours, utc_offset, NotProber>>

\* lines 1165-1183: the cycle ends and the loop sleeps.
ProbeCycleEnd ==
    /\ probe_pc = "checking"
    /\ to_check = <<>>
    /\ probe_pc' = "cycle"
    /\ UNCHANGED <<cards, to_check, extinct_alerts, hours, utc_offset, NotProber>>

\* An hour has passed in the sleeps of the loop.
HourPasses ==
    /\ probe_pc # "idle"
    /\ hours < MaxHours
    /\ hours' = hours + 1
    /\ UNCHANGED <<cards, probe_pc, to_check, extinct_alerts, utc_offset, NotProber>>

NextProbe ==
    \/ ProbeStart
    \/ ProbeScrapeAll
    \/ ProbeCycleStart
    \/ ProbeCard
    \/ ProbeCycleEnd
    \/ HourPasses
    \/ SourceChange

SpecProbe == Init /\ [][NextProbe]_vars

(***************************************************************************)
(* The check of one card (lines 634-648) by each of two monitoring loops,  *)
(* statement by statement, after the startup scrape; every statement       *)
(* succeeds.  status_version counts the changes of the status stored under *)
(* a name, so that two checks that read the same version have seen the     *)
(* same stored state.                                                      *)
(***************************************************************************)
NotMonitors == <<Process, Record, Startup, Savers, Http, Prober, StartupCalls, Refreshes>>

\* lines 634-638: the next card of the page the loop has fetched.
InstanceObserve(m) ==
    /\ pc = "monitor"
    /\ monitors[m].pc = "idle"
    /\ \A name \in Names : status_version[name] < MaxChanges
    /\ \E s \in Slots :
        monitors' = [monitors EXCEPT ![m] =
                        [pc |-> "observed",
                         card |-> [CatalogCard(s) EXCEPT
                                      !.appears_extinct = (source[s] = "null")],
                         previous_status |-> "None", read_version |-> 0,
                         queued |-> "none"]]
    /\ UNCHANGED <<cards, status_version, NotMonitors>>

\* line 641: previous_status = get_card_extinction_status(name).
InstanceRead(m) ==
    /\ monitors[m].pc = "observed"
    /\ monitors' = [monitors EXCEPT
                       ![m].pc = "read",
                       ![m].previous_status = PreviousStatus(cards, monitors[m].card, TRUE),
                       ![m].read_version = status_version[monitors[m].card.name]]
    /\ UNCHANGED <<cards, status_version, NotMonitors>>

\* lines 643-648: the decision, the append to the alert list and the UPDATE.
InstanceWrite(m) ==
    /\ monitors[m].pc = "read"
    /\ LET card == monitors[m].card
           previous_status == monitors[m].previous_status
           status == IF BecomesExtinct(card, previous_status) THEN "extinct"
                     ELSE IF BecomesAvailable(card, previous_status) THEN "available"
                     ELSE "none"
           rows == IF status = "none" THEN cards ELSE Written(cards, card, status, TRUE)
       IN  /\ cards' = rows
           /\ monitors' = [monitors EXCEPT ![m].pc = "idle", ![m].queued = status]
           /\ status_version' = IF rows # cards
                                 THEN [status_version EXCEPT ![card.name] = @ + 1]
                                 ELSE status_version
    /\ UNCHANGED NotMonitors

NextInstances ==
    \/ StartSystem
    \/ ScrapeBoundary
    \/ ScrapePage
    \/ ScrapeDone
    \/ \E m \in Instances : InstanceObserve(m)
    \/ \E m \in Instances : InstanceRead(m)
    \/ \E m \in Instances : InstanceWrite(m)
    \/ SourceChange

SpecInstances == Init /\ [][NextInstances]_vars

(***************************************************************************)
(* check_and_send_startup_notification, called any number of times on one  *)
(* object.  Every call that gets past the flag builds an instance_id of    *)
(* its own.  db_ok = FALSE: the connection, the INSERT or the commit       *)
(* raises something other than IntegrityError.                             *)
(***************************************************************************)
CallInstanceId(n) == <<"instance", 0, n>>

\* A variant without the flag: every call tries the lock.
CheckStartupUnguarded(flag, locks, instance_id, db_ok) ==
    IF ~db_ok \/ ~LockAcquired(locks, instance_id)
    THEN [startup_sent |-> TRUE, locks |-> locks, posted |-> FALSE]
    ELSE [startup_sent |-> TRUE, locks |-> locks \cup {instance_id}, posted |-> TRUE]

\* lines 147-183: the flag afterwards, the table afterwards and whether the
\* notification was handed to the senders.
CheckStartup(flag, locks, instance_id, db_ok) ==
    IF flag THEN [startup_sent |-> flag, locks |-> locks, posted |-> FALSE]
    ELSE IF ~db_ok \/ ~LockAcquired(locks, instance_id)
    THEN [startup_sent |-> TRUE, locks |-> locks, posted |-> FALSE]
    ELSE [startup_sent |-> TRUE, locks |-> locks \cup {instance_id}, posted |-> TRUE]

StartupCall ==
    /\ startup_calls < MaxCalls
    /\ startup_calls' = startup_calls + 1
    /\ \E db_ok \in BOOLEAN, outcomes \in Deliveries(1) :
        LET call == CheckStartup(startup_sent, startup_locks,
                                 CallInstanceId(startup_calls), db_ok)
        IN  /\ startup_sent' = call.startup_sent
            /\ startup_locks' = call.locks
            /\ startup_posts' = IF call.posted THEN startup_posts + 1 ELSE startup_posts
            /\ sent' = IF call.posted
                       THEN SendAll(<<Notice("Extinct Monitor Started", 0)>>, outcomes)
                       ELSE sent
    /\ UNCHANGED <<source, cards, pc, restarts, ScrapeLocals, MonitorLocals, Record, peers,
                   Savers, Http, Prober, Monitors, Refreshes>>

NextStartupCalls ==
    \/ StartupCall
    \/ SourceChange

SpecStartupCalls == Init /\ [][NextStartupCalls]_vars

(***************************************************************************)
(* monitor_extinct_zone over MaxLoops cycles, with the refreshes of the    *)
(* boundary that found a zone counted and the sleep of the loop that found *)
(* none kept.                                                              *)
(***************************************************************************)
CycleStartCounted ==
    /\ pc = "monitor"
    /\ boundary_refresh_counter < MaxLoops
    /\ \E found \in Found :
        \E sample \in SampleChoices(found) :
            /\ LoopTop(found, sample)
            /\ refreshes' = IF RefreshDue(boundary_refresh_counter) /\ found # 0
                            THEN refreshes + 1
                            ELSE refreshes
            /\ waited' = IF RefreshDue(boundary_refresh_counter) /\ found = 0
                         THEN NoZoneWait
                         ELSE 0
    /\ UNCHANGED <<Record, Startup, Savers, Http, Prober, Monitors, StartupCalls>>

NextRefresh ==
    \/ StartSystem
    \/ ScrapeBoundary
    \/ ScrapePage
    \/ ScrapeDone
    \/ CycleStartCounted
    \/ MonitorPage
    \/ CycleEnd
    \/ PostStalls
    \/ SourceChange

SpecRefresh == Init /\ [][NextRefresh]_vars

(***************************************************************************)
(* Properties.                                                             *)
(***************************************************************************)
\* The identifiers of the cards listed in the alerts of that title.
AlertedUrls(msgs, title) ==
    UNION {{msgs[m].cards[k].fut_gg_url : k \in 1..Len(msgs[m].cards)} :
              m \in {m \in 1..Len(msgs) : msgs[m].title = title}}

ListedUrls(cs) == {cs[i].fut_gg_url : i \in 1..Len(cs)}

\* What a step has appended to a list.
Appended(old, new) == SubSeq(new, Len(old) + 1, Len(new))

\* The page a monitoring step with these inputs reads.
MonitoredPage(ok, nprices) == ScrapeSorted(Head(sample_pages), source, ok, nprices)

\* C1: a card observed extinct in two cycles in a row (each cycle reads a
\* page at most once, so it was not observed available in between) causes
\* one extinction alert only: no card queued for the extinction alert of the
\* current cycle was listed in the extinction alert of the cycle before.
C1_OneExtinctionAlert ==
    ListedUrls(newly_extinct) \cap AlertedUrls(previous_alerts, "NEW EXTINCTIONS") = {}

\* C2: a card seen not extinct for the first time after it was seen extinct
\* stays tracked and gets no availability alert: no card queued for the
\* availability alert of the current cycle was observed extinct, and listed
\* in the extinction alert, in the cycle before.
C2_NoAlertOnFirstMiss ==
    ListedUrls(no_longer_extinct) \cap AlertedUrls(previous_alerts, "NEW EXTINCTIONS") = {}

\* C2 as amended: there is no threshold.  Whatever the visit of a page
\* returns, a card gets an availability entry exactly when it is read not
\* extinct and the status stored under its name is 'extinct' (one entry, on
\* this first miss), and the stored status becomes 'available' when the
\* UPDATE succeeds.
C2_AlertOnFirstMiss ==
    pc = "cycle" /\ sample_pages # <<>> =>
        \A probe \in Probes(sample_pages) :
            LET fetched == MonitoredPage(probe.ok, probe.nprices)
                st == VisitPage(probe.ok, probe.nprices, probe.read_failed,
                                probe.write_failed)
                back == Appended(no_longer_extinct, st.no_longer_extinct)
                missed == {i \in 1..Len(fetched) :
                              /\ ~fetched[i].appears_extinct
                              /\ i \notin probe.read_failed
                              /\ GetStatus(cards, fetched[i].name) = "extinct"}
            IN  /\ Len(back) = Cardinality(missed)
                /\ ListedUrls(back) = {fetched[i].fut_gg_url : i \in missed}
                /\ \A i \in missed \ probe.write_failed :
                       GetStatus(st.rows, fetched[i].name) = "available"

\* A card stored as extinct in the cycle before is read not extinct and is
\* queued for the availability alert at once.
C2_Witness ==
    /\ pc = "cycle"
    /\ \E i \in 1..Len(no_longer_extinct) :
          /\ no_longer_extinct[i].fut_gg_url \in AlertedUrls(previous_alerts, "NEW EXTINCTIONS")
          /\ GetStatus(cards, no_longer_extinct[i].name) = "available"

\* C3: one availability alert per return: no card queued for the
\* availability alert of the current cycle was listed in the availability
\* alert of the cycle before (it was not observed extinct in between).
C3_OneAvailabilityAlert ==
    ListedUrls(no_longer_extinct) \cap AlertedUrls(previous_alerts, "BACK IN MARKET") = {}

\* C4: an uncertain probe changes nothing.  Whatever the visit of a page
\* returns, a stored card with no price entry on the page is queued for
\* neither alert and the status stored under its name stays as it was.
C4_NoVerdictWhenUncertain ==
    pc = "cycle" /\ sample_pages # <<>> =>
        \A probe \in Probes(sample_pages) :
            LET fetched == MonitoredPage(probe.ok, probe.nprices)
                st == VisitPage(probe.ok, probe.nprices, probe.read_failed,
                                probe.write_failed)
                uncertain == {i \in 1..Len(fetched) :
                                 /\ i > probe.nprices
                                 /\ fetched[i].fut_gg_url \in Urls(cards)}
                queued == ListedUrls(Appended(newly_extinct, st.newly_extinct))
                            \cup ListedUrls(Appended(no_longer_extinct, st.no_longer_extinct))
            IN  \A i \in uncertain :
                    /\ fetched[i].fut_gg_url \notin queued
                    /\ GetStatus(st.rows, fetched[i].name) = GetStatus(cards, fetched[i].name)

\* C5: at most one row per fut_gg_url, in every state.
C5_UniqueIdentifier ==
    \A i, j \in 1..Len(cards) : cards[i].fut_gg_url = cards[j].fut_gg_url => i = j

\* After a restart and status updates, a scrape has offered a stored card
\* again and has inserted nothing.
C5_Witness ==
    /\ restarts > 0
    /\ pc = "scrape_zone"
    /\ total_saved = 0
    /\ \E i \in 1..Len(extinct_zone_cards), j \in 1..Len(cards) :
          /\ extinct_zone_cards[i].fut_gg_url = cards[j].fut_gg_url
          /\ cards[j].extinction_status = "extinct"

\* C6: where a scrape starts, whatever the listing answers, a scrape followed
\* by a second scrape that gets the same answers (no statement failing)
\* saves nothing the second time and leaves the table as the first left it.
C6_SecondScrapeSavesNothing ==
    pc = "scrape_boundary" =>
        \A fetch \in FetchResults(source) :
            LET first == ScrapeRun(cards, fetch)
                second == ScrapeRun(first.rows, fetch)
            IN  second.saved = 0 /\ second.rows = first.rows

\* A second scrape has ended: it collected cards, all stored already, and
\* counts no new row.
C6_Witness ==
    /\ restarts > 0
    /\ pc = "scrape_zone"
    /\ zone_pages = <<>>
    /\ total_saved = 0
    /\ Len(extinct_zone_cards) >= 2
    /\ ListedUrls(extinct_zone_cards) \subseteq Urls(cards)

\* The identifiers of the cards listed on the page a monitoring step visits.
VisitedUrls == {Catalog[s].fut_gg_url : s \in {s \in Slots : Catalog[s].page = Head(sample_pages)}}

\* C7: status is kept per identifier: a monitoring step leaves the stored
\* status of every row whose identifier is not on the visited page.
C7_StatusPerIdentifier ==
    [][pc = "cycle" /\ sample_pages # <<>> /\ sample_pages' = Tail(sample_pages) =>
        \A i \in 1..Len(cards) :
            cards[i].fut_gg_url \notin VisitedUrls =>
                cards'[i].extinction_status = cards[i].extinction_status]_vars

\* C8: no row has status 'available'.
C8_NoAvailablePersisted ==
    \A i \in 1..Len(cards) : cards[i].extinction_status # "available"

\* C8 as amended: a card that becomes available stays in the table.  A
\* monitoring step removes no row, and the rows of a card it queues for the
\* availability alert carry 'available' afterwards (or still 'extinct', when
\* the UPDATE failed).
C8_AvailableIsStored ==
    [][pc = "cycle" /\ pc' = "cycle" =>
        /\ Len(cards') = Len(cards)
        /\ \A i \in 1..Len(cards) : cards'[i].fut_gg_url = cards[i].fut_gg_url
        /\ LET back == Appended(no_longer_extinct, no_longer_extinct')
           IN  \A k \in 1..Len(back) :
                   /\ \E i \in 1..Len(cards') : cards'[i].name = back[k].name
                   /\ \A i \in 1..Len(cards') :
                          cards'[i].name = back[k].name =>
                              cards'[i].extinction_status \in {"available", "extinct"}]_vars

\* A card queued for the availability alert is in the table as 'available'.
C8_Witness ==
    \E k \in 1..Len(no_longer_extinct), i \in 1..Len(cards) :
        /\ cards[i].fut_gg_url = no_longer_extinct[k].fut_gg_url
        /\ cards[i].extinction_status = "available"

\* Candidates of one (name, rating) with different identifiers.
Twins(c, d) == c.name = d.name /\ c.rating = d.rating /\ c.fut_gg_url # d.fut_gg_url

\* C9: no candidate of a (name, rating) group with several identifiers is
\* inserted: in the run that fills an empty table, a collected candidate
\* with a twin among the collected candidates has no row.
C9_DuplicateGroupDropped ==
    pc = "scrape_zone" /\ restarts = 0 =>
        \A i, j \in 1..Len(extinct_zone_cards) :
            Twins(extinct_zone_cards[i], extinct_zone_cards[j]) =>
                extinct_zone_cards[i].fut_gg_url \notin Urls(cards)

\* What the scrape of the next page of the zone can meet.
ScrapeInputs ==
    [ok : BOOLEAN, nprices : 0..PageSize(zone_pages),
     failed : SUBSET (1..PageSize(zone_pages)), db_ok : BOOLEAN]

\* C9 as amended: there is no grouping.  Whatever the scrape of a page
\* meets, every candidate that appears extinct and whose INSERT does not
\* fail has a row afterwards, twins included.
C9_EveryExtinctCandidateStored ==
    pc = "scrape_zone" /\ zone_pages # <<>> =>
        \A in \in ScrapeInputs :
            LET fetched == ScrapeSorted(Head(zone_pages), source, in.ok, in.nprices)
                page == SavePage(cards, fetched, in.failed, in.db_ok)
                candidates == SelectSeq(fetched, LAMBDA c : c.appears_extinct)
            IN  in.db_ok =>
                    \A j \in (1..Len(candidates)) \ in.failed :
                        candidates[j].fut_gg_url \in Urls(page.rows)

\* Both cards named A rated 90 were collected and inserted by one scrape.
C9_Witness ==
    /\ pc = "scrape_zone"
    /\ total_saved >= 2
    /\ \E i, j \in 1..Len(extinct_zone_cards) :
          /\ Twins(extinct_zone_cards[i], extinct_zone_cards[j])
          /\ {extinct_zone_cards[i].fut_gg_url, extinct_zone_cards[j].fut_gg_url}
                 \subseteq Urls(cards)

\* C10: no card rated below the minimum rating of 81 is ever inserted.
C10_RatedBelowMinimumNeverStored ==
    \A i \in 1..Len(cards) : cards[i].rating >= 81

\* C10 as amended: the rating plays no part.  When no statement fails, a card
\* rated below 81 has a row after the scrape of its page exactly when it had
\* one before or appears extinct on the page.
C10_RatingIgnored ==
    pc = "scrape_zone" /\ zone_pages # <<>> =>
        \A ok \in BOOLEAN, nprices \in 0..PageSize(zone_pages) :
            LET fetched == ScrapeSorted(Head(zone_pages), source, ok, nprices)
                page == SavePage(cards, fetched, {}, TRUE)
            IN  \A i \in 1..Len(fetched) :
                    fetched[i].rating < 81 =>
                        (fetched[i].fut_gg_url \in Urls(page.rows)
                            <=> \/ fetched[i].fut_gg_url \in Urls(cards)
                                \/ fetched[i].appears_extinct)

\* The card rated 79 was collected by the scrape and has a row.
C10_Witness ==
    \E k \in 1..Len(extinct_zone_cards), i \in 1..Len(cards) :
        /\ extinct_zone_cards[k].rating < 81
        /\ cards[i].fut_gg_url = extinct_zone_cards[k].fut_gg_url
        /\ cards[i].rating < 81

\* The cards an alert or notice names, with name and rating as sent.
Named(msg) == {[name |-> msg.cards[k].name, rating |-> msg.cards[k].rating] :
                  k \in 1..Len(msg.cards)}

NamedIn(msgs) == UNION {Named(msgs[m]) : m \in 1..Len(msgs)}

NameAndRating(cs) == {[name |-> cs[i].name, rating |-> cs[i].rating] : i \in 1..Len(cs)}

C12_FailedPostChangesNothingElse ==
    [][pc = "cycle" /\ pc' = "monitor"
          => /\ Len(sent') = Len(CycleAlerts)
             /\ \A m \in 1..Len(sent') :
                    /\ sent'[m].title = CycleAlerts[m].title
                    /\ sent'[m].cards = CycleAlerts[m].cards
             /\ cards' = cards
             /\ boundary_refresh_counter' = boundary_refresh_counter]_vars

\* A cycle has ended with two alerts: the post of the first failed, the
\* second was sent all the same, and the status the first reports is stored.
C12_Witness ==
    /\ pc = "monitor"
    /\ Len(sent) = 2
    /\ sent[1].telegram = "failed"
    /\ sent[2].telegram = "sent"
    /\ \E k \in 1..Len(sent[1].cards), i \in 1..Len(cards) :
           /\ cards[i].name = sent[1].cards[k].name
           /\ cards[i].extinction_status = "extinct"

\* C13: a failed statement of the store skips the operation.  For every way
\* the visit of the next page can go: a card whose status could not be read
\* is queued for no alert and keeps the status stored under its name, and a
\* card whose status could not be written keeps it too.
C13_FailedStatementSkipsCard ==
    pc = "cycle" /\ sample_pages # <<>> =>
        \A probe \in Probes(sample_pages) :
            LET page == MonitoredPage(probe.ok, probe.nprices)
                st == VisitPage(probe.ok, probe.nprices, probe.read_failed,
                                probe.write_failed)
                queued == ListedUrls(Appended(newly_extinct, st.newly_extinct))
                              \cup ListedUrls(Appended(no_longer_extinct,
                                                       st.no_longer_extinct))
            IN  \A i \in 1..Len(page) :
                    /\ i \in probe.read_failed =>
                           /\ page[i].fut_gg_url \notin queued
                           /\ GetStatus(st.rows, page[i].name) = GetStatus(cards, page[i].name)
                    /\ i \in probe.write_failed =>
                           GetStatus(st.rows, page[i].name) = GetStatus(cards, page[i].name)

\* C14: a page request that fails inside a cycle affects that page only.
\* The visit whose request failed changes no stored status and queues no
\* card for an alert, and the loop goes on with the pages that remain.
C14_FailedFetchSkipsPageOnly ==
    [][pc = "cycle" /\ sample_pages # <<>> /\ source' = source /\ fetch_failed'
          => /\ cards' = cards
             /\ newly_extinct' = newly_extinct
             /\ no_longer_extinct' = no_longer_extinct
             /\ sample_pages' = Tail(sample_pages)
             /\ pc' = "cycle"]_vars

\* The request of the page visited last failed while a card of that page was
\* stored as extinct and had a price again, and a sampled page remains.
C14_Witness ==
    /\ pc = "cycle"
    /\ fetch_failed
    /\ sample_pages = <<21>>
    /\ source["s1"] = "priced"
    /\ GetStatus(cards, "A") = "extinct"
    /\ no_longer_extinct = <<>>

\* C15: the monitoring loop never ends because of an error, so under
\* fairness a further cycle always eventually begins: while the model allows
\* another cycle, cycle n is followed by cycle n + 1.
C15_AnotherCycleBegins ==
    \A n \in 1..(MaxCycles - 1) :
        (pc = "cycle" /\ boundary_refresh_counter = n)
            ~> (pc = "cycle" /\ boundary_refresh_counter = n + 1)

\* C16: every external call of a cycle carries a timeout, so every cycle
\* that has started eventually completes: the loop is back at its head.
C16_EveryCycleCompletes == (pc = "cycle") ~> (pc = "monitor")

\* C17: the crawl stops once three pages in a row have returned no
\* candidate: no page still to be fetched follows three pages that list no
\* card.
C17_StopsAfterThreeEmptyPages ==
    pc = "scrape_zone" =>
        \A k \in 1..Len(zone_pages) :
            ~(/\ zone_pages[k] > 3
              /\ \A q \in (zone_pages[k] - 3)..(zone_pages[k] - 1) :
                     SlotsOnPage(q) = <<>>)

\* C17 as amended: the crawl fetches the pages of the zone in increasing
\* order and never stops early.  It starts with every page up to the boundary
\* that lists a card, whatever lies between them; a step of the crawl moves
\* on to the next page, whatever its page returned; and the crawl ends only
\* when no page is left.
C17_CrawlVisitsWholeZone ==
    [][/\ pc = "scrape_boundary" /\ pc' = "scrape_zone"
            => \E last \in Boundaries(source) :
                   /\ last > 0
                   /\ {zone_pages'[k] : k \in 1..Len(zone_pages')} = CardPages \cap (1..last)
                   /\ \A j, k \in 1..Len(zone_pages') :
                          j < k => zone_pages'[j] < zone_pages'[k]
       /\ pc = "scrape_zone" /\ pc' = "scrape_zone" /\ zone_pages' # zone_pages
            => zone_pages' = Tail(zone_pages)
       /\ pc = "scrape_zone" /\ pc' = "monitor"
            => zone_pages = <<>>]_vars

\* The crawl has fetched page 20, which follows nineteen pages without a
\* card, has got no candidate from it, and goes on with page 21.
C17_Witness ==
    /\ pc = "scrape_zone"
    /\ zone_pages = <<21>>
    /\ extinct_zone_cards = <<>>

\* C18: whatever the site returns, a discovery crawl (the boundary search,
\* then the scrape of the zone) ends after at most 200 page requests: for
\* every way the three-card listing can answer to the crawl about to start,
\* and for every listing of Listings.
C18_CrawlFetchesAtMost200Pages ==
    pc = "scrape_boundary" =>
        /\ \A fetch \in FetchResults(source) : CrawlRequests(fetch) <= 200
        /\ \A n \in ListingRequests : n <= 200

\* A crawl is under way whose boundary search went past the highest test
\* page with an extinct card: both pages with cards are to be scraped.
C18_Witness ==
    /\ pc = "scrape_zone"
    /\ zone_pages = <<20, 21>>
    /\ \E fetch \in FetchResults(source) :
           FindExtinctBoundary(fetch) = 21 /\ CrawlRequests(fetch) = 30

\* The seconds since the row of that identifier was inserted.
Age(url) == now - first_detected[url]

\* C19: a card first detected less than 1800 seconds ago is not subject to
\* an availability check: every stored card queued for the availability
\* alert of the current cycle has a row at least 1800 seconds old.
C19_NoCheckWithinGracePeriod ==
    \A i \in 1..Len(no_longer_extinct) :
        no_longer_extinct[i].fut_gg_url \in DOMAIN first_detected
            => Age(no_longer_extinct[i].fut_gg_url) >= 1800

\* C19 as amended: there is no grace period.  Whenever the page of a stored
\* card is visited, its row being younger than 1800 seconds changes nothing:
\* if the page is read, the statuses are read, and the card appears not
\* extinct while the status stored under its name is 'extinct', the card is
\* queued for the availability alert of that cycle.
C19_CheckedWhateverTheAge ==
    pc = "cycle" /\ sample_pages # <<>> =>
        \A probe \in Probes(sample_pages) :
            LET page == MonitoredPage(probe.ok, probe.nprices)
                st == VisitPage(probe.ok, probe.nprices, probe.read_failed,
                                probe.write_failed)
                queued == ListedUrls(Appended(no_longer_extinct, st.no_longer_extinct))
            IN  \A i \in 1..Len(page) :
                    /\ page[i].fut_gg_url \in DOMAIN first_detected
                    /\ Age(page[i].fut_gg_url) < 1800
                    /\ ~page[i].appears_extinct
                    /\ GetStatus(cards, page[i].name) = "extinct"
                    /\ probe.read_failed = {}
                    => page[i].fut_gg_url \in queued

\* A stored card is queued for the availability alert 300 seconds after its
\* row was inserted.
C19_Witness ==
    \E i \in 1..Len(no_longer_extinct) :
        /\ no_longer_extinct[i].fut_gg_url \in DOMAIN first_detected
        /\ Age(no_longer_extinct[i].fut_gg_url) = 300

\* The processes that have sent the startup notification.
StartupNotifications ==
    Cardinality({p \in Peers : peers[p] = "notified"})
        + (IF \E m \in 1..Len(sent) : sent[m].title = "Extinct Monitor Started"
           THEN 1 ELSE 0)

\* C20: of the processes started on the same store, exactly one acquires the
\* startup lock and at most one sends the startup notification.
C20_OneStartupNotification ==
    /\ Cardinality(startup_locks) <= 1
    /\ StartupNotifications <= 1

\* The counts of the calls that are running.
RECURSIVE SumOfCounts(_)
SumOfCounts(ps) ==
    IF ps = {} THEN 0
    ELSE LET p == CHOOSE q \in ps : TRUE
         IN  savers[p].saved_count + SumOfCounts(ps \ {p})

Quiescent == \A p \in Callers : savers[p].state = "idle"

\* C21: under any interleaving of concurrent callers of save_cards_to_db,
\* once every call has returned each identifier passed in a batch is in
\* exactly one row and the sum of the returned counts is the number of
\* distinct identifiers passed (the store was empty before the calls).
C21_EveryIdentifierStoredOnce ==
    Quiescent =>
        /\ \A u \in offered : Cardinality({i \in 1..Len(cards) : cards[i].fut_gg_url = u}) = 1
        /\ returned = Cardinality(offered)

\* C21 as amended: at every moment no two rows share an identifier and every
\* row is counted by exactly one caller: the counts returned so far and the
\* counts of the running calls add up to the number of rows.  (A card whose
\* INSERT gave up waiting for the lock has no row and is counted by nobody.)
C21_NoDuplicateRowsEachCountedOnce ==
    /\ \A i, j \in 1..Len(cards) : cards[i].fut_gg_url = cards[j].fut_gg_url => i = j
    /\ returned + SumOfCounts(Callers) = Len(cards)
    /\ Urls(cards) \subseteq offered

\* Two calls overlap: one has inserted and committed its row and has been
\* called again; the INSERT of the other, with the same identifier, was
\* ignored and is not counted.
C21_Witness ==
    \E p, q \in Callers :
        /\ p # q
        /\ savers[p].state = "running"
        /\ savers[q].state = "running"
        /\ write_lock = q
        /\ savers[q].i = 2
        /\ savers[q].saved_count = 0
        /\ savers[q].batch[1].fut_gg_url \in Urls(savers[p].batch)
        /\ returned >= 1

\* C22: after a row is created no step changes its name, rating, identifier
\* or place in creation order (created_at): a step of the scrape leaves
\* every existing row untouched, re-inserted identifiers included, and a
\* step of the monitoring loop changes extinction_status only and creates
\* no row.
C22_RowsKeepIdentity ==
    [][/\ Len(cards') >= Len(cards)
       /\ \A i \in 1..Len(cards) :
             /\ cards'[i].name = cards[i].name
             /\ cards'[i].rating = cards[i].rating
             /\ cards'[i].fut_gg_url = cards[i].fut_gg_url
       /\ pc = "scrape_zone" => \A i \in 1..Len(cards) : cards'[i] = cards[i]
       /\ pc = "cycle" => Len(cards') = Len(cards)]_vars

\* After a restart the scrape has passed the stored identifiers to
\* save_cards_to_db again, one of them with a status written by the
\* monitoring loop, and a later row exists.
C22_Witness ==
    /\ restarts > 0
    /\ pc = "scrape_zone"
    /\ Len(cards) >= 2
    /\ cards[1].extinction_status = "extinct"
    /\ cards[1].fut_gg_url \in Urls(extinct_zone_cards)

\* C23: the count a scrape returns is the number of rows it inserted, rows
\* after minus rows before: where a scrape starts, for every call of
\* save_cards_to_db on the table as it is (batches with one identifier twice
\* and with stored identifiers included, some INSERTs failing) and for the
\* whole run whatever the listing answers; and for every page of a running
\* scrape whatever it meets.
C23_CountIsRowsInserted ==
    /\ pc = "scrape_boundary" =>
          \A batch \in Batches, failed \in SUBSET (1..2) :
              LET result == SaveCardsToDb(cards, batch, failed)
              IN  result.saved = Len(result.rows) - Len(cards)
    /\ pc = "scrape_zone" /\ zone_pages # <<>> =>
          \A in \in ScrapeInputs :
              LET fetched == ScrapeSorted(Head(zone_pages), source, in.ok, in.nprices)
                  page == SavePage(cards, fetched, in.failed, in.db_ok)
              IN  page.saved = Len(page.rows) - Len(cards)
    /\ pc = "scrape_boundary" =>
          \A fetch \in FetchResults(source) :
              LET run == ScrapeRun(cards, fetch)
              IN  run.saved = Len(run.rows) - Len(cards)

\* A scrape after a restart has ended: it passed stored identifiers to
\* save_cards_to_db again and counts only the row it added.
C23_Witness ==
    /\ restarts > 0
    /\ pc = "scrape_zone"
    /\ zone_pages = <<>>
    /\ total_saved = 1
    /\ Len(cards) >= 2
    /\ Len(extinct_zone_cards) >= 2

\* C24: the web interface only reads the store: no step that serves an HTTP
\* request changes the table.
C24_HttpOnlyReads ==
    [][http'.seq # http.seq => cards' = cards /\ cards_table' = cards_table]_vars

\* C24 as amended: every request but one leaves the database as it is; a
\* POST to /upload-db that carries a file named *.db has replaced the
\* database with the uploaded file, and it is answered with 200 and the
\* number of rows when the file holds a cards table, with 500 otherwise.
C24_OnlyUploadReplaces ==
    [][http'.seq # http.seq =>
          IF http'.method = "POST" /\ http'.status \in {200, 500}
          THEN \E file \in Uploads :
                  /\ file.filename = "backup.db"
                  /\ cards' = file.rows
                  /\ cards_table' = file.cards_table
                  /\ http'.status = (IF file.cards_table THEN 200 ELSE 500)
                  /\ http'.card_count = Len(cards')
          ELSE cards' = cards /\ cards_table' = cards_table]_vars

\* The scrape stored at least one row and an upload of an empty database
\* has removed every row.
C24_Witness ==
    /\ total_saved >= 1
    /\ http.method = "POST"
    /\ http.status = 200
    /\ cards = <<>>

\* A price-sorted listing whose pages 1..k hold an extinct card and whose
\* later pages hold none, every request succeeding.
SortedListing(k) == [p \in 1..ListingEnd |-> IF p <= k THEN Filler(TRUE) ELSE Filler(FALSE)]

\* C25: find_extinct_boundary returns the last page that contains extinct
\* players: where the scrape calls it, it returns k for every sorted listing
\* with extinct players on exactly the pages 1..k, and 0 only when no page
\* contains one.
C25_BoundaryIsLastExtinctPage ==
    pc = "scrape_boundary" =>
        \A k \in 0..ListingEnd : FindExtinctBoundary(SortedListing(k)) = k

\* C26: on the per-card path the cooldown prevents duplicate alerts: two
\* extinct alerts for one card are never sent less than
\* ALERT_COOLDOWN_HOURS apart.
C26_AlertsACooldownApart ==
    \A a, b \in extinct_alerts :
        a.card_id = b.card_id /\ a.alert_sent_at < b.alert_sent_at =>
            b.alert_sent_at - a.alert_sent_at >= AlertCooldownHours

\* The status stored in the row of an identifier.
StoredStatus(rows, fut_gg_url) ==
    LET i == CHOOSE i \in 1..Len(rows) : rows[i].fut_gg_url = fut_gg_url
    IN  rows[i].extinction_status

\* What an alert says about the cards it lists.
AlertedStatus(msg) == IF msg.title = "NEW EXTINCTIONS" THEN "extinct" ELSE "available"

\* C27: at the end of every monitoring cycle, for each stored card alerted in
\* the cycle, the last alert sent about it agrees with its stored status: an
\* extinction alert with 'extinct', an availability alert with 'available'.
C27_LastAlertAgreesWithStatus ==
    pc = "monitor" =>
        \A m \in 1..Len(sent) :
            sent[m].title \in {"NEW EXTINCTIONS", "BACK IN MARKET"} =>
                \A k \in 1..Len(sent[m].cards) :
                    LET fut_gg_url == sent[m].cards[k].fut_gg_url
                        last == \A n \in (m + 1)..Len(sent) :
                                    fut_gg_url \notin ListedUrls(sent[n].cards)
                    IN  fut_gg_url \in Urls(cards) /\ last =>
                            StoredStatus(cards, fut_gg_url) = AlertedStatus(sent[m])

\* C28: an availability alert is only produced for a card whose stored
\* status was 'extinct' when it was observed not extinct, and a stored status
\* only becomes 'available' from 'extinct': whatever the visit of the next
\* page meets, every card it queues for the availability alert has a row
\* that says 'extinct', and every row it turns to 'available' said 'extinct'.
C28_AvailableOnlyFromExtinct ==
    pc = "cycle" /\ sample_pages # <<>> =>
        \A probe \in Probes(sample_pages) :
            LET st == VisitPage(probe.ok, probe.nprices, probe.read_failed,
                                probe.write_failed)
                queued == Appended(no_longer_extinct, st.no_longer_extinct)
            IN  /\ \A k \in 1..Len(queued) :
                      /\ queued[k].fut_gg_url \in Urls(cards)
                      /\ StoredStatus(cards, queued[k].fut_gg_url) = "extinct"
                /\ \A i \in 1..Len(cards) :
                      st.rows[i].extinction_status = "available" =>
                          cards[i].extinction_status \in {"extinct", "available"}

\* C29: when two monitoring loops run against one store, a single status
\* transition of a stored card is alerted by at most one of them: no two
\* loops have queued the same alert for a name after reading the same
\* version of its stored status.
C29_OneAlertPerTransition ==
    \A m, n \in Instances :
        /\ m # n
        /\ monitors[m].pc = "idle"
        /\ monitors[n].pc = "idle"
        /\ monitors[m].queued # "none"
        /\ monitors[m].card.name = monitors[n].card.name
        /\ GetStatus(cards, monitors[m].card.name) # "None"
        /\ monitors[m].read_version = monitors[n].read_version
        => monitors[n].queued # monitors[m].queued

\* C30: within one monitor object the startup notification is sent at most
\* once however many times check_and_send_startup_notification is called:
\* after the first call, whatever became of it, startup_sent is true, at
\* most one row of startup_locks and one notification come from all the
\* calls together, and a call that finds the flag set posts nothing and
\* inserts nothing.
C30_StartupSentOnce ==
    /\ startup_posts <= 1
    /\ Cardinality(startup_locks) <= 1
    /\ startup_calls >= 1 => startup_sent
    /\ startup_posts = Cardinality(startup_locks)
    /\ startup_sent =>
          \A db_ok \in BOOLEAN :
              LET call == CheckStartup(startup_sent, startup_locks,
                                       CallInstanceId(startup_calls), db_ok)
              IN  ~call.posted /\ call.locks = startup_locks /\ call.startup_sent

\* The function was called several times and the first call sent the
\* notification.
C30_Witness ==
    /\ startup_calls >= 3
    /\ startup_posts = 1
    /\ startup_sent
    /\ \E m \in 1..Len(sent) : sent[m].title = "Extinct Monitor Started"

\* C31: the boundary is refreshed before the first monitoring cycle and then
\* once every 10 cycles: when n cycles have been counted, the refreshes that
\* found a zone number n / 10 rounded up.  A refresh that finds no zone
\* sleeps NoZoneWait, counts no cycle, draws no sample and leaves the loop
\* where the next pass refreshes again.
C31_RefreshedEveryTenCycles ==
    /\ refreshes = (boundary_refresh_counter + RefreshEvery - 1) \div RefreshEvery
    /\ waited = NoZoneWait =>
          /\ pc = "monitor"
          /\ RefreshDue(boundary_refresh_counter)
          /\ last_extinct_page = 0
          /\ sample_pages = <<>>
    /\ pc = "cycle" => waited = 0

\* The twenty-first cycle runs, after the third refresh that found a zone.
C31_Witness ==
    /\ pc = "cycle"
    /\ boundary_refresh_counter = 2 * RefreshEvery + 1
    /\ refreshes = 3

C34_FailedUploadChangesNothing ==
    [][/\ http'.seq # http.seq
       /\ http'.method = "POST"
       /\ http'.path = "/upload-db"
       /\ http'.status >= 400
       => cards' = cards]_vars

\* C33: run_complete_system leaves its start for the startup scrape when the
\* store is empty, for monitoring when the store holds 100 cards or more, and
\* for one of the two otherwise (the scrape unless SKIP_SCRAPING is set); in
\* every case it leaves it for one of the two, and the scrape, whatever it
\* stores, ends in monitoring.
C33_StartupThenMonitoring ==
    [][/\ pc = "start" /\ pc' # "start" =>
             /\ pc' \in {"scrape_boundary", "monitor"}
             /\ Len(cards) = 0 => pc' = "scrape_boundary"
             /\ Len(cards) >= ScrapeThreshold => pc' = "monitor"
       /\ pc \in {"scrape_boundary", "scrape_zone"} =>
             pc' \in {"scrape_boundary", "scrape_zone", "monitor"}]_vars

====
